---- MODULE Spec2Model ----
(***************************************************************************)
(* Routing core of revel (router.go): the route table built by Refresh,    *)
(* forward matching (Route / RouterFilter) and reverse routing (Reverse).  *)
(*                                                                         *)
(* Go strings are modelled as sequences of one-character strings, so that  *)
(* byte indexing, slicing, strings.Index / LastIndex / Split and the       *)
(* prefix comparisons of the source are computed and not assumed.          *)
(* A routes file is a sequence of lines; a line is the sequence of its     *)
(* whitespace-separated words.                                             *)
(***************************************************************************)
EXTENDS Integers, Sequences, FiniteSets, TLC

\* ------------------------------------------------------------------------
\* Bounds
\* ------------------------------------------------------------------------

\* number of variable lines in a routes file (after the fixed header lines)
MaxLines == 2

\* ------------------------------------------------------------------------
\* Go string primitives
\* ------------------------------------------------------------------------

\* strings.Index(s, c) for a one-byte separator: 0-based, -1 when absent
Index(s, c) ==
  IF \E i \in 1..Len(s) : s[i] = c
  THEN (CHOOSE i \in 1..Len(s) : s[i] = c /\ \A j \in 1..(i - 1) : s[j] # c) - 1
  ELSE -1

\* strings.LastIndex(s, c) for a one-byte separator: 0-based, -1 when absent
LastIndex(s, c) ==
  IF \E i \in 1..Len(s) : s[i] = c
  THEN (CHOOSE i \in 1..Len(s) : s[i] = c /\ \A j \in (i + 1)..Len(s) : s[j] # c) - 1
  ELSE -1

\* the Go slice expression s[i:j] (0-based, j exclusive), for 0 <= i <= j <= len(s)
Slice(s, i, j) == SubSeq(s, i + 1, j)

\* strings.HasPrefix
HasPrefix(s, p) == Len(s) >= Len(p) /\ SubSeq(s, 1, Len(p)) = p

\* strings.Split(s, c) for a one-byte separator
RECURSIVE Split(_, _)
Split(s, c) ==
  LET i == Index(s, c)
  IN  IF i = -1 THEN <<s>>
      ELSE <<Slice(s, 0, i)>> \o Split(Slice(s, i + 1, Len(s)), c)

\* strings.Join(elems, c)
RECURSIVE Join(_, _)
Join(elems, c) ==
  IF Len(elems) = 0 THEN <<>>
  ELSE IF Len(elems) = 1 THEN elems[1]
  ELSE elems[1] \o <<c>> \o Join(Tail(elems), c)

\* the lower-case letters that occur in method keywords of the modelled files
UpperChar(c) ==
  CASE c = "g" -> "G"
    [] c = "e" -> "E"
    [] c = "t" -> "T"
    [] OTHER   -> c

\* strings.ToUpper, applied in NewRoute to the method only
ToUpper(s) == [i \in 1..Len(s) |-> UpperChar(s[i])]

\* ------------------------------------------------------------------------
\* String constants of the modelled route files and requests
\* ------------------------------------------------------------------------

GET     == <<"G", "E", "T">>
HEAD    == <<"H", "E", "A", "D">>
POST    == <<"P", "O", "S", "T">>
PUT     == <<"P", "U", "T">>
DELETE  == <<"D", "E", "L", "E", "T", "E">>
PATCH   == <<"P", "A", "T", "C", "H">>
OPTIONS == <<"O", "P", "T", "I", "O", "N", "S">>
WS      == <<"W", "S">>
STAR    == <<"*">>

\* the alternatives of group 1 of routePattern
MethodKeywords == {GET, POST, PUT, DELETE, PATCH, OPTIONS, HEAD, WS, STAR}


\* paths, identifiers and words that occur in the modelled files and requests
P_a          == <<"/", "a">>
P_b          == <<"/", "b">>
P_x          == <<"/", ":", "x">>
P_admin_ctrl == <<"/", "a", "d", "m", "i", "n", "/", ":", "c", "t", "r", "l">>
P_id         == <<"/", ":", "i", "d">>
P_old        == <<"/", "o", "l", "d">>
P_rel        == <<"f", "o", "o", "/", "a">>
P_p          == <<"/", "p">>
P_q          == <<"/", "q">>
P_admin_users == <<"/", "a", "d", "m", "i", "n", "/", "u", "s", "e", "r", "s">>
P_unknown    == <<"/", "u", "n", "k", "n", "o", "w", "n", "/", "p", "a", "t", "h">>
P_c_c        == <<"/", "c", "/", ":", "c">>
P_c_App      == <<"/", "c", "/", "A", "p", "p">>

W_App_Index     == <<"A", "p", "p", ".", "I", "n", "d", "e", "x">>
W_App_Index_xy  == <<"A", "p", "p", ".", "I", "n", "d", "e", "x", "(", "x", ",", "y", ")">>
W_X_Y           == <<"X", ".", "Y">>
W_Module_Index  == <<"M", "o", "d", "u", "l", "e", ":", "c", "t", "r", "l", ".", "I", "n", "d", "e", "x">>
W_App_Show      == <<"A", "p", "p", ".", "S", "h", "o", "w">>
W_404           == <<"4", "0", "4">>
W_c_Index       == <<":", "c", ".", "I", "n", "d", "e", "x">>
W_No_Such       == <<"N", "o", ".", "S", "u", "c", "h">>
W_module        == <<"m", "o", "d", "u", "l", "e", ":">>
W_module_m      == <<"m", "o", "d", "u", "l", "e", ":", "m">>
W_module_z      == <<"m", "o", "d", "u", "l", "e", ":", "z">>
W_comment       == <<"#", "r", "o", "u", "t", "e", "s">>
W_FOO           == <<"F", "O", "O">>
W_get           == <<"g", "e", "t">>

S_App     == <<"A", "p", "p">>
S_Index   == <<"I", "n", "d", "e", "x">>
S_Show    == <<"S", "h", "o", "w">>
S_X       == <<"X">>
S_Y       == <<"Y">>
S_Module  == <<"M", "o", "d", "u", "l", "e">>
S_Moduleusers == <<"M", "o", "d", "u", "l", "e", "u", "s", "e", "r", "s">>
S_ctrl    == <<"c", "t", "r", "l">>
S_id      == <<"i", "d">>
S_5       == <<"5">>
S_a       == <<"a">>
S_m       == <<"m">>
S_sort    == <<"s", "o", "r", "t">>
S_asc     == <<"a", "s", "c">>
S_METHOD  == <<"M", "E", "T", "H", "O", "D">>
S_nil     == <<"<", "n", "i", "l", ">">>

\* ------------------------------------------------------------------------
\* Values shared by the operations
\* ------------------------------------------------------------------------

\* a nil pointer (*RouteMatch, *ActionDefinition, *pathtree.Leaf)
Nil == [nil |-> TRUE]

\* the outcome of a Go run-time panic (index or slice bound out of range,
\* nil dereference): the call does not return a value
Panic == [panic |-> TRUE]

\* a nil *Error
NoError == [Title |-> "", Description |-> "", Path |-> "", Line |-> 0]

\* a nil error (the error interface is modelled by its message class)
NoErr == ""

\* the path NewRouter is given (BasePath/conf/routes) and the module's file
RootRoutesPath   == "conf/routes"
ModuleRoutesPath == "m/conf/routes"

\* ioutil.ReadFile: a file that cannot be read, and a file with its lines
NoFile == [exists |-> FALSE, lines |-> <<>>]
File(lines) == [exists |-> TRUE, lines |-> lines]

\* Controller.SetAction: the controller methods the application registers
Registry ==
  { <<S_App, S_Index>>, <<S_App, S_Show>>, <<S_X, S_Y>>,
    <<S_Moduleusers, S_Index>> }

\* Controller.SetAction(controllerName, methodName): nil when the action exists
SetAction(controllerName, methodName) ==
  IF <<controllerName, methodName>> \in Registry THEN NoErr ELSE "no such action"

\* ModuleByName: module "m" is active, every other module is not
ModuleByName(moduleName) ==
  IF moduleName = S_m THEN [found |-> TRUE, Path |-> "m"]
  ELSE [found |-> FALSE, Path |-> ""]

\* ------------------------------------------------------------------------
\* Route descriptors
\* ------------------------------------------------------------------------

\* treePath(method, path)
treePath(method, path) ==
  LET m == IF method = STAR THEN <<":">> \o S_METHOD ELSE method
  IN  <<"/">> \o m \o path

\* csv.Reader.Read on the fixed arguments: one record, fields split at commas
\* (io.EOF on empty input leaves fargs nil); quoting does not occur in the
\* modelled files
csvRead(fixedArgs) ==
  IF Len(fixedArgs) = 0 THEN <<>> ELSE Split(fixedArgs, ",")

\* a half of the action with a trailing ';' stripped (router.go:72-81)
StripSemicolon(part) ==
  IF Len(part) > 1 /\ part[Len(part)] = ";"
  THEN Slice(part, 0, Len(part) - 1)
  ELSE part

\* NewRoute(method, path, action, fixedArgs, routesPath, line)
NewRoute(method, path, action, fixedArgs, routesPath, line) ==
  LET r == [ Method         |-> ToUpper(method),
             Path           |-> path,
             Action         |-> action,
             ControllerName |-> <<>>,
             MethodName     |-> <<>>,
             FixedParams    |-> csvRead(fixedArgs),
             TreePath       |-> treePath(ToUpper(method), path),
             leaf           |-> Nil,
             routesPath     |-> routesPath,
             line           |-> line ]
      actionSplit == Split(action, ".")
  IN  IF ~HasPrefix(path, <<"/">>) THEN r
      ELSE IF Len(actionSplit) = 2
      THEN [r EXCEPT !.ControllerName = StripSemicolon(actionSplit[1]),
                     !.MethodName     = StripSemicolon(actionSplit[2])]
      ELSE r

\* validateRoute(route): the error, or nil
validateRoute(route) ==
  LET parts == Split(route.Action, ".")
  IN  IF route.Action = W_404 THEN NoErr
      ELSE IF Len(parts) # 2 THEN "Expected two parts (Controller.Action)"
      ELSE IF LastIndex(parts[1], ":") # -1 \/ LastIndex(parts[2], ":") # -1
      THEN NoErr
      ELSE SetAction(parts[1], parts[2])

\* routeError(err, routesPath, content, n) for a plain error
routeError(err, routesPath, n) ==
  [Title |-> "Route validation error", Description |-> err,
   Path |-> routesPath, Line |-> n + 1]

\* ------------------------------------------------------------------------
\* Route grammar
\* ------------------------------------------------------------------------

\* parseRouteLine(line): routePattern applied to a line of words.  Group 1 is
\* the method keyword (case-insensitive), group 4 a word containing '/',
\* group 5 the target up to '(' and group 6 the text between the parentheses.
parseRouteLine(line) ==
  LET notFound == [found |-> FALSE, method |-> <<>>, path |-> <<>>,
                   action |-> <<>>, fixedArgs |-> <<>>]
  IN  IF Len(line) # 3 THEN notFound
      ELSE
        LET target == line[3]
            open   == Index(target, "(")
            action == IF open = -1 THEN target ELSE Slice(target, 0, open)
            rest   == IF open = -1 THEN <<>> ELSE Slice(target, open + 1, Len(target))
            close  == Index(rest, ")")
            fixed  == IF close = -1 THEN rest ELSE Slice(rest, 0, close)
        IN  IF /\ ToUpper(line[1]) \in MethodKeywords
               /\ Index(line[2], "/") # -1
               /\ Len(action) > 0
            THEN [found |-> TRUE, method |-> line[1], path |-> line[2],
                  action |-> action, fixedArgs |-> fixed]
            ELSE notFound

\* ------------------------------------------------------------------------
\* Parsing a routes file.  fs maps a file path to its lines, or to NoFile.
\* ------------------------------------------------------------------------

RECURSIVE parseRoutesFile(_, _, _)
RECURSIVE parseLines(_, _, _, _, _, _)

\* getModuleRoutes(moduleName, validate)
getModuleRoutes(fs, moduleName, validate) ==
  LET module == ModuleByName(moduleName)
  IN  IF ~module.found THEN [routes |-> <<>>, err |-> NoError]
      ELSE parseRoutesFile(fs, ModuleRoutesPath, validate)

\* the loop of parseRoutes from line n (0-based) on, routes being the
\* descriptors collected so far
parseLines(fs, routesPath, content, validate, n, routes) ==
  IF n >= Len(content) THEN [routes |-> routes, err |-> NoError]
  ELSE
    LET line == content[n + 1]
    IN  IF Len(line) = 0 \/ line[1][1] = "#"
        THEN parseLines(fs, routesPath, content, validate, n + 1, routes)
        ELSE IF HasPrefix(line[1], W_module)
        THEN LET m == getModuleRoutes(fs, Slice(line[1], Len(W_module), Len(line[1])), validate)
             IN  IF m.err # NoError THEN [routes |-> <<>>, err |-> m.err]
                 ELSE parseLines(fs, routesPath, content, validate, n + 1, routes \o m.routes)
        ELSE
          LET p == parseRouteLine(line)
          IN  IF ~p.found
              THEN parseLines(fs, routesPath, content, validate, n + 1, routes)
              ELSE
                LET route == NewRoute(p.method, p.path, p.action, p.fixedArgs, routesPath, n)
                    verr  == IF validate THEN validateRoute(route) ELSE NoErr
                IN  IF verr # NoErr
                    THEN [routes |-> <<>>, err |-> routeError(verr, routesPath, n)]
                    ELSE parseLines(fs, routesPath, content, validate, n + 1,
                                    Append(routes, route))

\* parseRoutes(routesPath, content, validate)
parseRoutes(fs, routesPath, content, validate) ==
  parseLines(fs, routesPath, content, validate, 0, <<>>)

\* parseRoutesFile(routesPath, validate)
parseRoutesFile(fs, routesPath, validate) ==
  IF ~fs[routesPath].exists
  THEN [routes |-> <<>>,
        err |-> [Title |-> "Failed to load routes file",
                 Description |-> "open: no such file", Path |-> "", Line |-> 0]]
  ELSE parseRoutes(fs, routesPath, fs[routesPath].lines, validate)

\* ------------------------------------------------------------------------
\* pathtree: the prefix tree router.Tree.  A node is the set of leaves below
\* it; the tree is the sequence of its leaves in the order they were added.
\* ------------------------------------------------------------------------

\* pathtree.New()
New == [leaves |-> <<>>, leafs |-> 0]

\* a sequence of elements without a leading and a trailing empty element
TrimEmpty(e) ==
  LET lo == IF Len(e) > 0 /\ e[1] = <<>> THEN 2 ELSE 1
      hi == IF Len(e) >= lo /\ e[Len(e)] = <<>> THEN Len(e) - 1 ELSE Len(e)
  IN  SubSeq(e, lo, hi)

\* splitPath: the elements between the slashes, without a leading and a
\* trailing empty element
splitPath(key) == TrimEmpty(Split(key, "/"))

\* a path element that is a wildcard (":name")
IsWildcard(el) == Len(el) > 0 /\ el[1] = ":"

\* the edges a key follows from the root: a wildcard edge whatever its name
Edges(elements) ==
  [i \in 1..Len(elements) |-> IF IsWildcard(elements[i]) THEN <<":">> ELSE elements[i]]

\* the names of the wildcard elements, in order
RECURSIVE WildcardNames(_)
WildcardNames(elements) ==
  IF Len(elements) = 0 THEN <<>>
  ELSE (IF IsWildcard(elements[1]) THEN <<Tail(elements[1])>> ELSE <<>>)
       \o WildcardNames(Tail(elements))

\* Node.add(elements, val) for the elements of key
addElements(tree, key, elements, val) ==
  LET order    == tree.leafs + 1
      leaf     == [elements |-> elements, Wildcards |-> WildcardNames(elements),
                   order |-> order, Value |-> val]
      counted  == [tree EXCEPT !.leafs = order]
  IN  IF Len(key) = 0 \/ key[1] # "/"
      THEN [tree |-> tree, leaf |-> Nil, err |-> "Path must begin with /"]
      ELSE IF \E i \in 1..Len(elements) : elements[i] = <<>>
      THEN [tree |-> counted, leaf |-> Nil, err |-> "empty path elements are not allowed"]
      ELSE IF \E i \in 1..Len(tree.leaves) :
                 Edges(tree.leaves[i].elements) = Edges(elements)
      THEN [tree |-> counted, leaf |-> Nil, err |-> "duplicate path"]
      ELSE [tree |-> [counted EXCEPT !.leaves = Append(@, leaf)],
            leaf |-> leaf, err |-> NoErr]

\* Node.Add(key, val): the tree after the call, the new leaf and the error
Add(tree, key, val) == addElements(tree, key, splitPath(key), val)

\* Node.find(elements, exp) at the node reached by d edges, below are the
\* indices of the leaves under that node.  The result is the index of the
\* winning leaf (0: none) and its expansions.
RECURSIVE find(_, _, _, _, _)
find(tree, below, d, elements, exp) ==
  IF d = Len(elements)
  THEN LET here == {i \in below : Len(tree.leaves[i].elements) = d}
       IN  IF here = {} THEN [leaf |-> 0, expansions |-> exp]
           ELSE [leaf |-> CHOOSE i \in here : TRUE, expansions |-> exp]
  ELSE
    LET el   == elements[d + 1]
        edge == {i \in below : /\ Len(tree.leaves[i].elements) > d
                               /\ ~IsWildcard(tree.leaves[i].elements[d + 1])
                               /\ tree.leaves[i].elements[d + 1] = el}
        wild == {i \in below : /\ Len(tree.leaves[i].elements) > d
                               /\ IsWildcard(tree.leaves[i].elements[d + 1])}
        lit  == IF edge = {} THEN [leaf |-> 0, expansions |-> <<>>]
                ELSE find(tree, edge, d + 1, elements, exp)
        wc   == IF wild = {} THEN [leaf |-> 0, expansions |-> <<>>]
                ELSE find(tree, wild, d + 1, elements, Append(exp, el))
    IN  IF wc.leaf # 0 /\ (lit.leaf = 0 \/ tree.leaves[lit.leaf].order > tree.leaves[wc.leaf].order)
        THEN wc
        ELSE lit

\* Node.Find(key): the leaf (Nil: none) and the expansions of its wildcards
Find(tree, key) ==
  IF Len(key) = 0 \/ key[1] # "/" THEN [leaf |-> Nil, expansions |-> <<>>]
  ELSE LET r == find(tree, 1..Len(tree.leaves), 0, splitPath(key), <<>>)
       IN  IF r.leaf = 0 THEN [leaf |-> Nil, expansions |-> <<>>]
           ELSE [leaf |-> tree.leaves[r.leaf], expansions |-> r.expansions]

\* the set of elements of a sequence
Range(s) == {s[i] : i \in 1..Len(s)}

\* Node.Reverse(leaf, args): the key of the leaf with every wildcard element
\* replaced by the argument of its name, the arguments the path did not
\* consume, and the wildcard names without an argument.  fill is the text
\* written for a missing argument.
TreeReverse(leaf, args, fill) ==
  LET subst(el) == IF ~IsWildcard(el) THEN el
                   ELSE IF Tail(el) \in DOMAIN args THEN args[Tail(el)]
                   ELSE fill
      names == Range(leaf.Wildcards)
  IN  [path    |-> <<"/">> \o Join([i \in 1..Len(leaf.elements) |-> subst(leaf.elements[i])], "/"),
       unused  |-> [k \in (DOMAIN args) \ names |-> args[k]],
       missing |-> names \ DOMAIN args]

\* ------------------------------------------------------------------------
\* Route table builder
\* ------------------------------------------------------------------------

\* route.leaf (router.go:24, 175): the leaf Add returned.  The leaf's Value
\* points back at the route that holds it, so the field keeps the rest of
\* the leaf.
LeafRef(leaf) ==
  IF leaf = Nil THEN Nil
  ELSE [elements |-> leaf.elements, Wildcards |-> leaf.Wildcards, order |-> leaf.order]

\* the second Add left out: a GET descriptor is registered under its own
\* method only
updateNoAlias(route, a1) == a1

\* router.go:177-180: the HEAD alias of a GET descriptor, a1 being what the
\* first Add returned
updateAlias(route, a1) ==
  IF a1.err = NoErr /\ route.Method = GET
  THEN Add(a1.tree, treePath(HEAD, route.Path), route)
  ELSE a1

\* router.go:175 and 182-185: the descriptors with the leaf of the i-th
\* set, the tree and the error, a1 and a2 being what the two Adds returned
updateAdded(routes, i, a1, a2) ==
  [routes |-> [routes EXCEPT ![i].leaf = LeafRef(a1.leaf)], tree |-> a2.tree,
   err |-> IF a2.err # NoErr
           THEN routeError(a2.err, routes[i].routesPath, routes[i].line)
           ELSE NoError]

\* the iteration after the first Add returned a1
updateAfterAdd(routes, i, a1) == updateAdded(routes, i, a1, updateAlias(routes[i], a1))

\* one iteration of the loop of updateTree, for the i-th descriptor: the
\* descriptors with the leaf of the i-th set, the tree and the error of Add
updateStep(routes, i, tree) ==
  updateAfterAdd(routes, i, Add(tree, routes[i].TreePath, routes[i]))

\* the loop of updateTree from the i-th descriptor on, u being the
\* descriptors, the tree and the error so far
RECURSIVE updateLoop(_, _)
updateLoop(u, i) ==
  IF i > Len(u.routes) \/ u.err # NoError THEN u
  ELSE updateLoop(updateStep(u.routes, i, u.tree), i + 1)

\* Router.updateTree
updateTree(routes) == updateLoop([routes |-> routes, tree |-> New, err |-> NoError], 1)

\* ------------------------------------------------------------------------
\* Matcher
\* ------------------------------------------------------------------------

\* var notFound = &RouteMatch{Action: "404"}
notFound ==
  [Action |-> W_404, ControllerName |-> <<>>, MethodName |-> <<>>,
   FixedParams |-> <<>>, Params |-> <<>>]

\* the url.Values built from the expansions (router.go:122-128); a later
\* wildcard of the same name overwrites an earlier one
MakeParams(wildcards, expansions) ==
  [name \in Range(wildcards) |->
     LET last == CHOOSE i \in 1..Len(wildcards) :
                   wildcards[i] = name /\ \A j \in (i + 1)..Len(wildcards) : wildcards[j] # name
     IN  <<expansions[last]>>]

\* the substitution with the literal prefix of the half dropped: the whole
\* half becomes the captured value wherever the ':' stands
SubstituteWhole(name, params) ==
  LET pos == LastIndex(name, ":")
      key == Slice(name, pos + 1, Len(name))
  IN  IF pos = -1 THEN [panic |-> FALSE, value |-> name]
      ELSE IF key \notin DOMAIN params THEN [panic |-> TRUE, value |-> <<>>]
      ELSE [panic |-> FALSE, value |-> params[key][1]]

\* one half of the action with its placeholder replaced (router.go:137-150);
\* params[...][0] on a name without a captured value panics (index out of
\* range on a nil slice)
Substitute(name, params) ==
  LET pos == LastIndex(name, ":")
      key == Slice(name, pos + 1, Len(name))
  IN  IF pos = -1 THEN [panic |-> FALSE, value |-> name]
      ELSE IF key \notin DOMAIN params THEN [panic |-> TRUE, value |-> <<>>]
      ELSE IF pos = 0 THEN [panic |-> FALSE, value |-> params[key][1]]
      ELSE [panic |-> FALSE, value |-> Slice(name, 0, pos) \o params[key][1]]

\* Router.Route without lines 130-133: a descriptor whose target is 404 is
\* resolved like any other
RouteOfLeafResolving404(f) ==
  IF f.leaf = Nil THEN Nil
  ELSE
    LET route  == f.leaf.Value
        params == IF Len(f.expansions) > 0
                  THEN MakeParams(f.leaf.Wildcards, f.expansions)
                  ELSE <<>>
        controllerName == Substitute(route.ControllerName, params)
        methodName     == Substitute(route.MethodName, params)
    IN  IF controllerName.panic \/ methodName.panic THEN Panic
        ELSE [Action |-> <<>>, ControllerName |-> controllerName.value,
              MethodName |-> methodName.value, FixedParams |-> route.FixedParams,
              Params |-> params]

\* Router.Route from line 116 on, f being the leaf and the expansions that
\* router.Tree.Find returned
RouteOfLeaf(f) ==
  IF f.leaf = Nil THEN Nil
  ELSE
    LET route  == f.leaf.Value
        params == IF Len(f.expansions) > 0
                  THEN MakeParams(f.leaf.Wildcards, f.expansions)
                  ELSE <<>>
        controllerName == Substitute(route.ControllerName, params)
        methodName     == Substitute(route.MethodName, params)
    IN  IF route.Action = W_404 THEN notFound
        ELSE IF controllerName.panic \/ methodName.panic THEN Panic
        ELSE [Action |-> <<>>, ControllerName |-> controllerName.value,
              MethodName |-> methodName.value, FixedParams |-> route.FixedParams,
              Params |-> params]

\* Router.Route(req) for req.Method = method and req.URL.Path = path
Route(tree, method, path) == RouteOfLeaf(Find(tree, treePath(method, path)))

\* the argument names of the action's method (c.MethodType.Args)
MethodArgs(controllerName, methodName) == <<S_a>>

\* RouterFilter from line 435 on, route being what MainRouter.Route
\* returned: c.Result, or the request parameters handed to the next filter
FilterRoute(route) ==
      IF route = Panic THEN Panic
      ELSE IF route = Nil THEN [Result |-> "NotFound: No matching route found"]
      ELSE IF route.Action = W_404 THEN [Result |-> "NotFound: (intentionally)"]
      ELSE IF SetAction(route.ControllerName, route.MethodName) # NoErr
      THEN [Result |-> "NotFound: no such action"]
      ELSE
        LET margs == MethodArgs(route.ControllerName, route.MethodName)
            n     == IF Len(route.FixedParams) < Len(margs)
                     THEN Len(route.FixedParams) ELSE Len(margs)
        IN  [Result |-> "next", Route |-> route.Params,
             Fixed |-> [k \in {margs[i] : i \in 1..n} |->
                          route.FixedParams[CHOOSE i \in 1..n : margs[i] = k]]]

\* RouterFilter(c, fc) for a request
RouterFilter(tree, method, path) == FilterRoute(Route(tree, method, path))

\* ------------------------------------------------------------------------
\* Reverse router
\* ------------------------------------------------------------------------

\* untreePath cutting the tree path one byte early: the URL keeps the last
\* byte of the method
untreePathEarly(path) ==
  IF Len(path) = 0 THEN [method |-> path, url |-> <<"/">>]
  ELSE
    LET split == Index(Slice(path, 1, Len(path)), "/")
    IN  IF split = -1 THEN [method |-> path, url |-> <<"/">>]
        ELSE [method |-> Slice(path, 0, split),
              url    |-> Slice(path, split, Len(path))]

\* untreePath(path): the method and the URL of a tree path
untreePath(path) ==
  IF Len(path) = 0 THEN [method |-> path, url |-> <<"/">>]
  ELSE
    LET split == Index(Slice(path, 1, Len(path)), "/")
    IN  IF split = -1 THEN [method |-> path, url |-> <<"/">>]
        ELSE [method |-> Slice(path, 0, split),
              url    |-> Slice(path, split + 1, Len(path))]

\* the bytes of the modelled strings in ASCII order
Alphabet ==
  <<"(", ")", "*", ",", ".", "/", "0", "4", "5", ":", ";", "<", "=", ">", "?",
    "A", "D", "E", "F", "G", "H", "I", "M", "N", "O", "P", "S", "T", "U", "W",
    "X", "Y", "a", "b", "c", "d", "e", "f", "g", "h", "i", "k", "l", "m", "n",
    "o", "p", "q", "r", "s", "t", "u", "w", "x", "y", "z">>

\* the position of a byte in Alphabet
Rank(c) == CHOOSE i \in 1..Len(Alphabet) : Alphabet[i] = c

\* a < b for strings, byte-wise (the order sort.Strings gives the keys)
RECURSIVE Less(_, _)
Less(a, b) ==
  IF Len(b) = 0 THEN FALSE
  ELSE IF Len(a) = 0 THEN TRUE
  ELSE IF a[1] # b[1] THEN Rank(a[1]) < Rank(b[1])
  ELSE Less(Tail(a), Tail(b))

\* url.QueryEscape of one byte: unreserved bytes are kept
EscapeChar(c) ==
  CASE c = ":" -> <<"%", "3", "A">>
    [] c = "/" -> <<"%", "2", "F">>
    [] c = "<" -> <<"%", "3", "C">>
    [] c = ">" -> <<"%", "3", "E">>
    [] c = "=" -> <<"%", "3", "D">>
    [] c = "?" -> <<"%", "3", "F">>
    [] c = "," -> <<"%", "2", "C">>
    [] c = ";" -> <<"%", "3", "B">>
    [] c = "(" -> <<"%", "2", "8">>
    [] c = ")" -> <<"%", "2", "9">>
    [] c = "*" -> <<"%", "2", "A">>
    [] OTHER   -> <<c>>

\* url.QueryEscape
RECURSIVE QueryEscape(_)
QueryEscape(s) ==
  IF Len(s) = 0 THEN <<>> ELSE EscapeChar(s[1]) \o QueryEscape(Tail(s))

\* url.Values.Encode: key=value pairs, sorted by key, joined by '&'
RECURSIVE Encode(_)
Encode(values) ==
  IF DOMAIN values = {} THEN <<>>
  ELSE
    LET k    == CHOOSE x \in DOMAIN values : \A y \in DOMAIN values : ~Less(y, x)
        rest == [y \in (DOMAIN values) \ {k} |-> values[y]]
        pair == QueryEscape(k) \o <<"=">> \o QueryEscape(values[k])
    IN  IF DOMAIN rest = {} THEN pair ELSE pair \o <<"&">> \o Encode(rest)

\* the method and the flag reported as the descriptor declares them: '*'
\* stays '*' and the flag stays false
ReverseMethodAsDeclared(route) == [method |-> route.Method, star |-> FALSE]

\* the method and the Star flag Reverse reports for a route
\* (router.go:399-404)
ReverseMethod(route) ==
  IF route.Method = STAR THEN [method |-> GET, star |-> TRUE]
  ELSE [method |-> route.Method, star |-> FALSE]

\* the ActionDefinition built from the chosen route (router.go:374-415)
MakeActionDefinition(route, action, controllerName, methodName, argValues, fill) ==
  LET controllerWildcard == LastIndex(route.ControllerName, ":")
      methodWildcard     == LastIndex(route.MethodName, ":")
      args1 == IF controllerWildcard # -1
               THEN [k \in DOMAIN argValues
                          \cup {Slice(route.ControllerName, controllerWildcard + 1, Len(route.ControllerName))} |->
                       IF k = Slice(route.ControllerName, controllerWildcard + 1, Len(route.ControllerName))
                       THEN Slice(controllerName, controllerWildcard, Len(controllerName))
                       ELSE argValues[k]]
               ELSE argValues
      args2 == IF methodWildcard # -1
               THEN [k \in DOMAIN args1
                          \cup {Slice(route.MethodName, methodWildcard + 1, Len(route.MethodName))} |->
                       IF k = Slice(route.MethodName, methodWildcard + 1, Len(route.MethodName))
                       THEN Slice(methodName, methodWildcard, Len(methodName))
                       ELSE args1[k]]
               ELSE args1
  IN  IF route.leaf = Nil THEN Panic
      ELSE
        LET rev == TreeReverse(route.leaf, args2, fill)
            url == untreePath(rev.path).url
        IN  [Host   |-> "TODO",
             Method |-> ReverseMethod(route).method,
             Url    |-> IF DOMAIN rev.unused # {}
                        THEN url \o <<"?">> \o Encode(rev.unused) ELSE url,
             Action |-> action,
             Star   |-> ReverseMethod(route).star,
             Args   |-> args2]

\* what the loop of Reverse does with one route (router.go:353-373):
\* "skip" (continue), "panic" (a slice bound out of range) or "take"
Candidate(route, controllerName, methodName) ==
  LET controllerWildcard == LastIndex(route.ControllerName, ":")
      methodWildcard     == LastIndex(route.MethodName, ":")
  IN  IF route.ControllerName = <<>> \/ route.MethodName = <<>> THEN "skip"
      ELSE IF \/ (controllerWildcard = -1 /\ route.ControllerName # controllerName)
              \/ (methodWildcard = -1 /\ route.MethodName # methodName)
      THEN "skip"
      ELSE IF \/ (controllerWildcard > 0 /\ Len(route.ControllerName) <= controllerWildcard)
              \/ (methodWildcard > 0 /\ Len(route.MethodName) <= methodWildcard)
      THEN "skip"
      ELSE IF controllerWildcard > 0 /\ Len(controllerName) < controllerWildcard
      THEN "panic"
      ELSE IF controllerWildcard > 0
              /\ Slice(route.ControllerName, 0, controllerWildcard)
                   # Slice(controllerName, 0, controllerWildcard)
      THEN "skip"
      ELSE IF methodWildcard > 0 /\ Len(methodName) < methodWildcard
      THEN "panic"
      ELSE IF methodWildcard > 0
              /\ Slice(route.MethodName, 0, methodWildcard)
                   # Slice(methodName, 0, methodWildcard)
      THEN "skip"
      ELSE "take"

\* the loop of Reverse from the i-th route on
RECURSIVE ReverseScan(_, _, _, _, _, _, _)
ReverseScan(routes, i, action, controllerName, methodName, argValues, fill) ==
  IF i > Len(routes) THEN Nil
  ELSE
    LET c == Candidate(routes[i], controllerName, methodName)
    IN  IF c = "panic" THEN Panic
        ELSE IF c = "take"
        THEN MakeActionDefinition(routes[i], action, controllerName, methodName,
                                  argValues, fill)
        ELSE ReverseScan(routes, i + 1, action, controllerName, methodName,
                         argValues, fill)

\* Router.Reverse ranging over router.Routes from the last declared
ReverseFromLast(routes, action, argValues, fill) ==
  LET actionSplit == Split(action, ".")
      backwards   == [k \in 1..Len(routes) |-> routes[Len(routes) + 1 - k]]
  IN  IF Len(actionSplit) # 2 THEN Nil
      ELSE ReverseScan(backwards, 1, action, actionSplit[1], actionSplit[2],
                       argValues, fill)

\* Router.Reverse(action, argValues)
Reverse(routes, action, argValues, fill) ==
  LET actionSplit == Split(action, ".")
  IN  IF Len(actionSplit) # 2 THEN Nil
      ELSE ReverseScan(routes, 1, action, actionSplit[1], actionSplit[2],
                       argValues, fill)

\* ------------------------------------------------------------------------
\* The routes files, requests and reverse calls of the model
\* ------------------------------------------------------------------------

\* every modelled routes file starts with a blank line, a comment, a line
\* routePattern does not match and the include of an inactive module, and
\* ends with the include of the active module
Header == << <<>>, <<W_comment>>, <<W_FOO, P_a, W_App_Index>>, <<W_module_z>> >>
Footer == << <<W_module_m>> >>

\* the route lines that follow the header
VarLines ==
  << <<GET, P_a, W_App_Index>>,
     <<HEAD, P_x, W_X_Y>>,
     <<GET, P_admin_ctrl, W_Module_Index>>,
     <<STAR, P_id, W_App_Show>>,
     <<GET, P_p, W_c_Index>> >>

\* a route line whose action validateRoute rejects; parseRoutes returns at
\* this line, so no modelled file has a route line after it
FailLine == <<GET, P_q, W_No_Such>>

\* conf/routes of module "m"
ModuleFile ==
  << <<W_get, P_b, W_App_Index_xy>>,
     <<GET, P_old, W_404>>,
     <<GET, P_c_c, W_c_Index>>,
     <<GET, P_rel, W_App_Index>> >>

RECURSIVE Pow(_, _)
Pow(b, e) == IF e = 0 THEN 1 ELSE b * Pow(b, e - 1)

\* the number of files with fewer than k variable lines
RECURSIVE FilesBelow(_)
FilesBelow(k) == IF k = 0 THEN 0 ELSE FilesBelow(k - 1) + Pow(Len(VarLines), k - 1)

\* the contents conf/routes can have are numbered: 0 is the file that
\* cannot be read, the others are the header, up to MaxLines route lines
\* and the footer.  The route lines are lines of VarLines (the contents
\* 1..FilesBelow(MaxLines + 1)), or fewer than MaxLines of them and then
\* FailLine (the contents after those).
NumFiles  == FilesBelow(MaxLines + 1) + FilesBelow(MaxLines)
RootFiles == 0..NumFiles

\* the n-th sequence of lines of VarLines, the shorter ones first
VarBody(n) ==
  LET k == CHOOSE k \in 0..MaxLines : FilesBelow(k) < n /\ n <= FilesBelow(k + 1)
      j == n - 1 - FilesBelow(k)
  IN  [d \in 1..k |-> VarLines[((j \div Pow(Len(VarLines), d - 1)) % Len(VarLines)) + 1]]

\* the content numbered n
RootFile(n) ==
  IF n = 0 THEN NoFile
  ELSE IF n <= FilesBelow(MaxLines + 1) THEN File(Header \o VarBody(n) \o Footer)
  ELSE File(Header \o VarBody(n - FilesBelow(MaxLines + 1)) \o <<FailLine>> \o Footer)

\* the file system seen by ioutil.ReadFile
FileSystem(root) ==
  [p \in {RootRoutesPath, ModuleRoutesPath} |->
     IF p = RootRoutesPath THEN root ELSE File(ModuleFile)]

ReqMethods == {GET, HEAD, POST}
ReqPaths   == {P_a, P_admin_users, P_old, P_unknown, P_p, P_c_App}

\* the argument maps handed to Reverse
NoArgs     == <<>>
ArgsId     == [k \in {S_id} |-> S_5]
ArgsIdSort == [k \in {S_id, S_sort} |-> IF k = S_id THEN S_5 ELSE S_asc]

\* the calls of Reverse: action and argValues
ReverseCalls ==
  { <<W_App_Index, NoArgs>>, <<W_App_Show, NoArgs>>, <<W_App_Show, ArgsId>>,
    <<W_App_Show, ArgsIdSort>>, <<S_Moduleusers \o <<".">> \o S_Index, NoArgs>>,
    <<W_X_Y, NoArgs>>, <<S_App, NoArgs>> }

\* the texts Node.Reverse may write for a missing argument
Fills == {<<>>, S_nil}

\* ------------------------------------------------------------------------
\* State
\* ------------------------------------------------------------------------

VARIABLES
  Routes,   \* router.Routes
  Tree,     \* router.Tree
  refresh,  \* the position of a call of Refresh that has not returned
  last      \* the last call that returned: its inputs and what it returned

vars == <<Routes, Tree, refresh, last>>

\* no call of Refresh is running
Idle == [pc |-> "idle", i |-> 0, root |-> 0, oldRoutes |-> <<>>, oldTree |-> New]

NoCall ==
  [op |-> "NewRouter", method |-> <<>>, path |-> <<>>, action |-> <<>>,
   args |-> <<>>, match |-> Nil, result |-> Nil, err |-> NoError]

\* NewRouter(routesPath)
Init ==
  /\ Routes = <<>>
  /\ Tree = New
  /\ refresh = Idle
  /\ last = NoCall

\* parseRoutesFile(router.path, true) for the contents numbered lo..hi
RECURSIVE ParsedRange(_, _)
ParsedRange(lo, hi) ==
  IF lo > hi THEN <<>>
  ELSE IF lo = hi
  THEN <<parseRoutesFile(FileSystem(RootFile(lo)), RootRoutesPath, TRUE)>>
  ELSE LET mid == (lo + hi) \div 2
       IN  ParsedRange(lo, mid) \o ParsedRange(mid + 1, hi)

\* parseRoutesFile(router.path, true) for every content of conf/routes
\* (content n at position n + 1)
ParsedRoot == ParsedRange(0, NumFiles)

\* updateTree on the descriptors parsed from the contents numbered lo..hi
RECURSIVE UpdatedRange(_, _)
UpdatedRange(lo, hi) ==
  IF lo > hi THEN <<>>
  ELSE IF lo = hi THEN <<updateTree(ParsedRoot[lo + 1].routes)>>
  ELSE LET mid == (lo + hi) \div 2
       IN  UpdatedRange(lo, mid) \o UpdatedRange(mid + 1, hi)

\* updateTree on the descriptors parsed from every content of conf/routes
UpdatedRoot == UpdatedRange(0, NumFiles)

\* Router.Refresh on a router whose fields are routes and tree, with
\* conf/routes holding the content numbered root: the fields after the call
\* and the returned error
RefreshResult(root, routes, tree) ==
  IF ParsedRoot[root + 1].err # NoError
  THEN [Routes |-> ParsedRoot[root + 1].routes, Tree |-> tree,
        err |-> ParsedRoot[root + 1].err]
  ELSE [Routes |-> UpdatedRoot[root + 1].routes, Tree |-> UpdatedRoot[root + 1].tree,
        err |-> UpdatedRoot[root + 1].err]

\* MainRouter.Refresh() with conf/routes holding the content numbered root,
\* run without another call in between
RefreshCall(root) ==
  \E r \in {RefreshResult(root, Routes, Tree)} :
    /\ refresh.pc = "idle"
    /\ Routes' = r.Routes
    /\ Tree' = r.Tree
    /\ last' = [NoCall EXCEPT !.op = "Refresh", !.err = r.err]
    /\ UNCHANGED refresh

\* RouterFilter on a request, which calls MainRouter.Route
RouterFilterCall(method, path) ==
  /\ last' = [NoCall EXCEPT !.op = "Route", !.method = method, !.path = path,
                            !.match = Route(Tree, method, path),
                            !.result = RouterFilter(Tree, method, path)]
  /\ UNCHANGED <<Routes, Tree, refresh>>

\* MainRouter.Reverse(action, argValues)
ReverseCall(action, argValues, fill) ==
  /\ last' = [NoCall EXCEPT !.op = "Reverse", !.action = action, !.args = argValues,
                            !.result = Reverse(Routes, action, argValues, fill)]
  /\ UNCHANGED <<Routes, Tree, refresh>>

Next ==
  \/ \E root \in RootFiles : RefreshCall(root)
  \/ \E method \in ReqMethods, path \in ReqPaths : RouterFilterCall(method, path)
  \/ \E c \in ReverseCalls, fill \in Fills : ReverseCall(c[1], c[2], fill)

Spec == Init /\ [][Next]_vars

\* ------------------------------------------------------------------------
\* Refresh statement by statement, as the watcher's goroutine runs it while
\* requests are served
\* ------------------------------------------------------------------------

\* router.Routes, err = parseRoutesFile(router.path, true); return on error
RefreshParse(root) ==
  \E p \in {ParsedRoot[root + 1]} :
    /\ refresh.pc = "idle"
    /\ Routes' = p.routes
    /\ UNCHANGED Tree
    /\ IF p.err # NoError
       THEN /\ refresh' = Idle
            /\ last' = [NoCall EXCEPT !.op = "Refresh", !.err = p.err]
       ELSE /\ refresh' = [pc |-> "updateTree", i |-> 0, root |-> root,
                           oldRoutes |-> Routes, oldTree |-> Tree]
            /\ UNCHANGED last

\* router.Tree = pathtree.New()
RefreshNewTree ==
  /\ refresh.pc = "updateTree"
  /\ Tree' = New
  /\ refresh' = [refresh EXCEPT !.pc = "loop", !.i = 1]
  /\ UNCHANGED <<Routes, last>>

\* one iteration of the loop of updateTree; return on error
RefreshAdd ==
  /\ refresh.pc = "loop"
  /\ refresh.i <= Len(Routes)
  /\ \E u \in {updateStep(Routes, refresh.i, Tree)} :
       /\ Routes' = u.routes
       /\ Tree' = u.tree
       /\ IF u.err # NoError
          THEN /\ refresh' = Idle
               /\ last' = [NoCall EXCEPT !.op = "Refresh", !.err = u.err]
          ELSE /\ refresh' = [refresh EXCEPT !.i = @ + 1]
               /\ UNCHANGED last

\* return nil at the end of updateTree
RefreshReturn ==
  /\ refresh.pc = "loop"
  /\ refresh.i > Len(Routes)
  /\ refresh' = Idle
  /\ last' = [NoCall EXCEPT !.op = "Refresh"]
  /\ UNCHANGED <<Routes, Tree>>

\* the contents of conf/routes, requests and reverse calls of the
\* interleaved runs
ConcFiles    == 0..FilesBelow(MaxLines)
ConcPaths    == {P_a, P_old}
ConcReverses == { <<W_App_Index, NoArgs>>, <<W_App_Show, ArgsId>> }

NextConc ==
  \/ \E root \in ConcFiles : RefreshParse(root)
  \/ RefreshNewTree
  \/ RefreshAdd
  \/ RefreshReturn
  \/ \E method \in {GET}, path \in ConcPaths : RouterFilterCall(method, path)
  \/ \E c \in ConcReverses : ReverseCall(c[1], c[2], <<>>)

SpecConc == Init /\ [][NextConc]_vars

\* ------------------------------------------------------------------------
\* Notions the properties are stated with
\* ------------------------------------------------------------------------

\* a call returned a value (not nil, and it did not panic)
Returned(v) == v # Nil /\ v # Panic

\* a descriptor as updateTree hands it to the tree
StripLeaf(route) == [route EXCEPT !.leaf = Nil]

\* the live table is what updateTree builds from the descriptor list without
\* an error (the state after NewRouter or after a successful Refresh)
TableBuilt ==
  updateTree([i \in 1..Len(Routes) |-> StripLeaf(Routes[i])])
    = [routes |-> Routes, tree |-> Tree, err |-> NoError]

\* a pattern of path elements matches the elements of a request
PatternMatches(pattern, elements) ==
  /\ Len(pattern) = Len(elements)
  /\ \A k \in 1..Len(pattern) : IsWildcard(pattern[k]) \/ pattern[k] = elements[k]

\* the leaves of the live tree whose key matches a request
LeavesMatching(method, path) ==
  {i \in 1..Len(Tree.leaves) :
     PatternMatches(Tree.leaves[i].elements, splitPath(treePath(method, path)))}

\* the first registered of a non-empty set of leaves
FirstLeaf(S) ==
  Tree.leaves[CHOOSE i \in S : \A j \in S : Tree.leaves[i].order <= Tree.leaves[j].order]

\* a tree that holds one leaf only
OnlyLeaf(leaf) == [leaves |-> <<leaf>>, leafs |-> leaf.order]

\* one half of a descriptor's identifier stands for the given half: equal, or
\* a placeholder whose literal prefix is a prefix of the given half
HalfFits(half, given) ==
  LET w == LastIndex(half, ":")
  IN  IF w = -1 THEN half = given ELSE HasPrefix(given, Slice(half, 0, w))

\* the descriptors of the live list that are candidates for an identifier
CandidatesFor(action) ==
  LET halves == Split(action, ".")
  IN  IF Len(halves) # 2 THEN {}
      ELSE {i \in 1..Len(Routes) :
              /\ Routes[i].ControllerName # <<>>
              /\ Routes[i].MethodName # <<>>
              /\ HalfFits(Routes[i].ControllerName, halves[1])
              /\ HalfFits(Routes[i].MethodName, halves[2])}

\* the least element of a non-empty set of indices
Least(S) == CHOOSE i \in S : \A j \in S : i <= j

\* the URL a descriptor's path gives with its placeholders taken from args,
\* and the other arguments as the query string
ExpectedUrl(route, args) ==
  LET elems  == splitPath(route.Path)
      names  == Range(WildcardNames(elems))
      used   == IF route.Method = STAR THEN names \cup {S_METHOD} ELSE names
      query  == [k \in (DOMAIN args) \ used |-> args[k]]
      p      == <<"/">> \o Join([k \in 1..Len(elems) |->
                                   IF IsWildcard(elems[k]) THEN args[Tail(elems[k])]
                                   ELSE elems[k]], "/")
  IN  IF DOMAIN query = {} THEN p ELSE p \o <<"?">> \o Encode(query)

\* ------------------------------------------------------------------------
\* C1
\* ------------------------------------------------------------------------

\* C1: a Refresh that returns an error leaves router.Routes and router.Tree
\* exactly as they were before the call.
C1_FailedRefreshKeepsTable ==
  [][(last'.op = "Refresh" /\ last'.err # NoError)
       => (Routes' = Routes /\ Tree' = Tree)]_vars

\* ------------------------------------------------------------------------
\* C2
\* ------------------------------------------------------------------------

\* the table the running Refresh is building
NewTable == RefreshResult(refresh.root, refresh.oldRoutes, refresh.oldTree)

\* C2: a match or a reverse call that returns while a Refresh is running
\* answers as the complete old table or as the complete new table would.
C2_ReaderSeesOldOrNew ==
  refresh.pc # "idle" =>
    /\ last.op = "Route" =>
         last.match \in {Route(refresh.oldTree, last.method, last.path),
                         Route(NewTable.Tree, last.method, last.path)}
    /\ last.op = "Reverse" =>
         last.result \in {Reverse(refresh.oldRoutes, last.action, last.args, <<>>),
                          Reverse(NewTable.Routes, last.action, last.args, <<>>)}

\* ------------------------------------------------------------------------
\* C3
\* ------------------------------------------------------------------------

\* C3: declaration order is the tie-break.  (1) The leaves of the tree are
\* ordered as their descriptors are declared; (2) a match answers as the
\* first registered of the matching leaves alone would, and nil when no leaf
\* matches; (3) a reverse target is built from the first declared candidate,
\* and reverse returns nil only when there is no candidate.
C3_DeclarationOrderWins ==
  /\ \A i, j \in 1..Len(Routes) : \A a, b \in 1..Len(Tree.leaves) :
       (/\ i < j
        /\ Tree.leaves[a].Value = StripLeaf(Routes[i])
        /\ Tree.leaves[b].Value = StripLeaf(Routes[j]))
         => Tree.leaves[a].order < Tree.leaves[b].order
  /\ last.op = "Route" =>
       LET M == LeavesMatching(last.method, last.path)
       IN  IF M = {} THEN last.match = Nil
           ELSE last.match = Route(OnlyLeaf(FirstLeaf(M)), last.method, last.path)
  /\ last.op = "Reverse" =>
       LET C      == CandidatesFor(last.action)
           halves == Split(last.action, ".")
       IN  /\ last.result = Nil => C = {}
           /\ Returned(last.result) =>
                /\ C # {}
                /\ \E fill \in Fills :
                     last.result = MakeActionDefinition(Routes[Least(C)], last.action,
                                                        halves[1], halves[2], last.args, fill)

\* two descriptors match the request and the match resolved to the earlier
C3_Witness ==
  /\ last.op = "Route"
  /\ Returned(last.match)
  /\ \E a, b \in LeavesMatching(last.method, last.path) :
       Tree.leaves[a].Value # Tree.leaves[b].Value

\* ------------------------------------------------------------------------
\* C4
\* ------------------------------------------------------------------------

\* the last call was a GET request that resolved to a GET descriptor
GetResolvedByGet ==
  /\ last.op = "Route"
  /\ last.method = GET
  /\ LeavesMatching(GET, last.path) # {}
  /\ FirstLeaf(LeavesMatching(GET, last.path)).Value.Method = GET

\* a HEAD descriptor declared before the one that resolved the GET request
\* matches the path
EarlierHeadDescriptor ==
  \E i \in LeavesMatching(HEAD, last.path) :
    /\ Tree.leaves[i].Value.Method = HEAD
    /\ Tree.leaves[i].order < FirstLeaf(LeavesMatching(GET, last.path)).order

\* C4 as stated: after a successful rebuild, whenever a GET request resolves
\* to the identifier of a GET descriptor, the HEAD request for the path
\* resolves to the same identifier, fixed arguments and path parameters.
C4_HeadSameAsGet ==
  (TableBuilt /\ GetResolvedByGet /\ Returned(last.match) /\ last.match # notFound)
    => Route(Tree, HEAD, last.path) = last.match

\* C4 amended: the HEAD request matches, and it resolves as the GET request
\* unless a HEAD descriptor declared earlier matches the path.
C4_HeadSameAsGetUnlessEarlierHead ==
  (TableBuilt /\ GetResolvedByGet)
    => /\ Route(Tree, HEAD, last.path) # Nil
       /\ ~EarlierHeadDescriptor => Route(Tree, HEAD, last.path) = last.match

\* a GET request resolved to a GET descriptor and the HEAD request agrees
C4_Witness ==
  /\ TableBuilt
  /\ GetResolvedByGet
  /\ Returned(last.match)
  /\ last.match # notFound
  /\ ~EarlierHeadDescriptor
  /\ Route(Tree, HEAD, last.path) = last.match

\* ------------------------------------------------------------------------
\* C5
\* ------------------------------------------------------------------------

\* the identifier a match resolved to
Identifier(match) == match.ControllerName \o <<".">> \o match.MethodName

\* the method of a request that a descriptor's own method matches
OwnMethod(route) == IF route.Method = STAR THEN GET ELSE route.Method

\* neither the path nor the identifier of a descriptor has a placeholder
NoPlaceholders(route) ==
  /\ Index(route.Path, ":") = -1
  /\ Index(route.Action, ":") = -1

\* the last call was Reverse with an empty argument map for the identifier
\* that matching the path of the i-th descriptor resolves to
ReversedMatchOf(i) ==
  LET m == Route(Tree, OwnMethod(Routes[i]), Routes[i].Path)
  IN  /\ last.op = "Reverse"
      /\ last.args = NoArgs
      /\ Returned(m)
      /\ m # notFound
      /\ last.action = Identifier(m)

FirstForPathAndIdentifier(i) ==
  LET M == LeavesMatching(OwnMethod(Routes[i]), Routes[i].Path)
  IN  /\ M # {}
      /\ FirstLeaf(M).Value = StripLeaf(Routes[i])
      /\ CandidatesFor(Routes[i].Action) # {}
      /\ Least(CandidatesFor(Routes[i].Action)) = i
      /\ \A j \in 1..(i - 1) : Index(Routes[j].Action, ":") = -1

\* the path is absolute and does not end in a slash (the root path does)
PlainPath(path) ==
  /\ HasPrefix(path, <<"/">>)
  /\ Len(path) > 1 => path[Len(path)] # "/"

MatchedLeaf == FirstLeaf(LeavesMatching(last.method, last.path))

\* the element of the last request at the place of the leaf's last wildcard
\* of the given name
Captured(leaf, name) ==
  LET k == CHOOSE k \in 1..Len(leaf.elements) :
             /\ leaf.elements[k] = <<":">> \o name
             /\ \A j \in (k + 1)..Len(leaf.elements) : leaf.elements[j] # <<":">> \o name
  IN  splitPath(treePath(last.method, last.path))[k]

\* the last call was a request that resolved to an identifier
Resolved ==
  /\ last.op = "Route"
  /\ Returned(last.match)
  /\ last.match # notFound

\* C6 as stated: a half with ':' at position 0 becomes the captured value;
\* otherwise the text after the last ':' is replaced by the captured value
\* and the prefix up to there stays (Module:ctrl gives Module:users).
C6_SubstitutesAfterColon ==
  Resolved =>
    LET expected(half) ==
          LET pos == LastIndex(half, ":")
          IN  IF pos = -1 THEN half
              ELSE IF pos = 0 THEN Captured(MatchedLeaf, Slice(half, 1, Len(half)))
              ELSE Slice(half, 0, pos + 1)
                     \o Captured(MatchedLeaf, Slice(half, pos + 1, Len(half)))
    IN  /\ last.match.ControllerName = expected(MatchedLeaf.Value.ControllerName)
        /\ last.match.MethodName = expected(MatchedLeaf.Value.MethodName)

\* C6 amended: the half becomes the text before the last ':' followed by
\* the captured value; the ':' is not kept (Module:ctrl gives Moduleusers).
C6_SubstitutesFromColon ==
  Resolved =>
    LET expected(half) ==
          LET pos == LastIndex(half, ":")
          IN  IF pos = -1 THEN half
              ELSE Slice(half, 0, pos)
                     \o Captured(MatchedLeaf, Slice(half, pos + 1, Len(half)))
    IN  /\ last.match.ControllerName = expected(MatchedLeaf.Value.ControllerName)
        /\ last.match.MethodName = expected(MatchedLeaf.Value.MethodName)

\* GET /admin/users resolved through Module:ctrl.Index
C6_Witness ==
  /\ Resolved
  /\ last.path = P_admin_users
  /\ MatchedLeaf.Value.ControllerName = S_Module \o <<":">> \o S_ctrl
  /\ last.match.ControllerName = S_Moduleusers
  /\ last.match.MethodName = S_Index

\* ------------------------------------------------------------------------
\* C7
\* ------------------------------------------------------------------------

\* C7: (1) a request whose path a '*' descriptor of the tree matches is
\* matched, whatever its method; (2) a reverse target reports GET and
\* Star = TRUE when it is built from a '*' descriptor, and the descriptor's
\* method and Star = FALSE otherwise; (3) its URL is the descriptor's path
\* with the placeholders replaced by the arguments, followed by the other
\* arguments as the query.
C7_StarMethod ==
  /\ last.op = "Route" =>
       \A i \in 1..Len(Tree.leaves) :
         (/\ Tree.leaves[i].Value.Method = STAR
          /\ PatternMatches(splitPath(Tree.leaves[i].Value.Path), splitPath(last.path)))
           => last.match # Nil
  /\ (last.op = "Reverse" /\ Returned(last.result)) =>
       LET route == Routes[Least(CandidatesFor(last.action))]
       IN  /\ route.Method = STAR =>
                (last.result.Method = GET /\ last.result.Star = TRUE)
           /\ route.Method # STAR =>
                (last.result.Method = route.Method /\ last.result.Star = FALSE)
           /\ Range(WildcardNames(splitPath(route.Path))) \subseteq DOMAIN last.result.Args
                => last.result.Url = ExpectedUrl(route, last.result.Args)

\* App.Show was reversed through the '*' descriptor
C7_Witness ==
  /\ last.op = "Reverse"
  /\ last.args = ArgsIdSort
  /\ Returned(last.result)
  /\ Routes[Least(CandidatesFor(last.action))].Method = STAR
  /\ last.result.Star = TRUE
  /\ last.result.Method = GET
  /\ last.result.Url = <<"/", "5", "?", "s", "o", "r", "t", "=", "a", "s", "c">>

\* ------------------------------------------------------------------------
\* C8
\* ------------------------------------------------------------------------

\* C8: a request yields the intentional not-found exactly when the leaf that
\* resolves it belongs to a descriptor whose target is 404, and nil exactly
\* when no leaf matches; RouterFilter reports the two differently; Reverse
\* skips every 404 descriptor.
C8_Explicit404 ==
  /\ last.op = "Route" =>
       LET M == LeavesMatching(last.method, last.path)
       IN  /\ last.match = Nil <=> M = {}
           /\ last.match = notFound <=> (M # {} /\ FirstLeaf(M).Value.Action = W_404)
           /\ last.match = Nil => last.result = [Result |-> "NotFound: No matching route found"]
           /\ last.match = notFound => last.result = [Result |-> "NotFound: (intentionally)"]
  /\ last.op = "Reverse" =>
       LET halves == Split(last.action, ".")
       IN  Len(halves) = 2 =>
             \A i \in 1..Len(Routes) :
               Routes[i].Action = W_404
                 => Candidate(Routes[i], halves[1], halves[2]) = "skip"

\* GET /old matched the 404 descriptor
C8_Witness ==
  /\ last.op = "Route"
  /\ last.path = P_old
  /\ last.match = notFound
  /\ last.result = [Result |-> "NotFound: (intentionally)"]

\* ------------------------------------------------------------------------
\* C9
\* ------------------------------------------------------------------------

\* C9: on a table produced by a successful rebuild, a match and a reverse
\* call return a value and never panic.
C9_RequestsNeverAbort ==
  TableBuilt => (last.match # Panic /\ last.result # Panic)

\* ------------------------------------------------------------------------
\* C10
\* ------------------------------------------------------------------------

\* C10: the path of every descriptor in the list and in the tree starts
\* with '/'.
C10_PathsAreAbsolute ==
  /\ \A i \in 1..Len(Routes) : HasPrefix(Routes[i].Path, <<"/">>)
  /\ \A i \in 1..Len(Tree.leaves) : HasPrefix(Tree.leaves[i].Value.Path, <<"/">>)

====
